---- MODULE Spec2Model ----
(***************************************************************************)
(* A model of the GitHub A2A agent: process start-up and the bearer gate   *)
(* (src/__main__.py, src/util/parse_env.py, src/auth_middleware.py), the   *)
(* URL parser (src/util/github_util.py), the open_github_pr tool and the   *)
(* streaming agent turn (src/github_agent.py).                             *)
(*                                                                         *)
(* Python strings that the code inspects character by character (header    *)
(* values, request paths, URLs) are sequences of one-character strings.    *)
(* Python's None is the one-element sequence None, which is no string.     *)
(***************************************************************************)
EXTENDS Integers, Sequences, FiniteSets, TLC

VARIABLES
    \* ---- process start-up and HTTP front door
    boot,        \* position of the process: "start", "imported", "built", "listening", "crashed"
    environ,     \* os.environ["GITHUB_TOKEN"] (None when unset)
    environ0,    \* history: os.environ["GITHUB_TOKEN"] as the process was started
    dotenv,      \* GITHUB_TOKEN as the local .env file gives it (None when it does not)
    environment, \* github_agent.environment, as parse_env returned it
    log,         \* the requests the listener has answered, in order
    \* ---- parse_github_repo_url
    url,         \* the argument
    parsed,      \* None before the call, then the outcome
    \* ---- open_github_pr
    prpc,        \* position inside open_github_pr
    prargs,      \* its arguments
    prenv,       \* GITHUB_TOKEN as build_github_client reads it
    calls,       \* the calls made on the remote API, in order
    prout,       \* None, or what the tool returned or raised
    \* ---- GitHubAgent
    memory,      \* the MemorySaver: thread id -> thread state
    pc,          \* per worker: position inside stream()
    ctx,         \* per worker: context_id of the running turn
    node,        \* per worker: the graph node that runs next
    events,      \* per worker: what stream() has yielded this turn
    hist,        \* per worker: history of the turn (what the graph did)
    turns        \* number of turns started

serverVars == <<boot, environ, environ0, dotenv, environment, log>>
urlVars    == <<url, parsed>>
prVars     == <<prpc, prargs, prenv, calls, prout>>
agentVars  == <<memory, pc, ctx, node, events, hist, turns>>
vars       == <<serverVars, urlVars, prVars, agentVars>>

None == <<"None">>

\* ------------------------------------------------------------------------
\* String helpers (str.startswith, str.lower)

StartsWith(s, p) == Len(s) >= Len(p) /\ SubSeq(s, 1, Len(p)) = p

LowerChar(c) ==
    CASE c = "B" -> "b" [] c = "E" -> "e" [] c = "A" -> "a" [] c = "R" -> "r"
      [] c = "S" -> "s" [] c = "I" -> "i" [] c = "C" -> "c" [] c = "T" -> "t"
      [] OTHER -> c

Lower(s) == [i \in 1..Len(s) |-> LowerChar(s[i])]

\* Index of the first occurrence of character c in s, 0 when there is none.
RECURSIVE FindFrom(_, _, _)
FindFrom(s, c, i) ==
    IF i > Len(s) THEN 0 ELSE IF s[i] = c THEN i ELSE FindFrom(s, c, i + 1)

Find(s, c) == FindFrom(s, c, 1)

\* ------------------------------------------------------------------------
\* Bounds and input alphabets

MaxRequests == 2

Tok == <<"g">>

WellKnown    == <<"/", ".", "w", "e", "l", "l", "-", "k", "n", "o", "w", "n">>
BearerPrefix == <<"b", "e", "a", "r", "e", "r", " ">>

Paths ==
    { <<"/">>,                          \* the JSON-RPC endpoint
      WellKnown \o <<"/", "c">>,        \* /.well-known/c  (the agent card)
      WellKnown \o <<"x">>,             \* /.well-knownx
      <<"/", "a">> \o WellKnown,        \* /a/.well-known
      <<"/", ".", "w">> }               \* /.w

AuthValues ==
    { None,                                              \* no header
      <<>>,                                              \* empty header
      <<"B", "e", "a", "r", "e", "r", " ", "t">>,        \* Bearer t
      <<"b", "e", "a", "r", "e", "r", " ", "t">>,        \* bearer t
      <<"B", "E", "A", "R", "E", "R", " ", "t", " ", "u">>, \* BEARER t u
      <<"B", "e", "a", "r", "e", "r">>,                  \* Bearer
      <<"B", "e", "a", "r", "e", "r", " ">>,             \* "Bearer "
      <<"B", "a", "s", "i", "c", " ", "t">> }            \* Basic t

\* ------------------------------------------------------------------------
\* src/util/parse_env.py

\* load_dotenv(): a variable of the .env file is set in os.environ unless
\* os.environ already holds that name (override is off), whatever its value.
load_dotenv(env, file) == IF env = None /\ file # None THEN file ELSE env

\* parse_env after load_dotenv: `not os.environ.get("GITHUB_TOKEN")` is true
\* of an unset and of an empty variable.
\* Faulty variant: only an unset variable is refused, an empty one passes.
parse_env_unset_only(env) ==
    IF env = None
    THEN [raised |-> "EnvironmentError", github_token |-> None]
    ELSE [raised |-> "", github_token |-> env]

parse_env(env) ==
    IF env = None \/ env = <<>>
    THEN [raised |-> "EnvironmentError", github_token |-> None]
    ELSE [raised |-> "", github_token |-> env]

\* ------------------------------------------------------------------------
\* src/auth_middleware.py

\* auth.split(" ", 1)[1]
SplitToken(auth) == SubSeq(auth, Find(auth, " ") + 1, Len(auth))

call_next(request, token) ==
    [status_code |-> 200, body |-> "handler", called_next |-> TRUE, token |-> token]

Unauthorized ==
    [status_code |-> 401, body |-> "Missing or invalid Authorization header",
     called_next |-> FALSE, token |-> None]

\* Faulty variant: the scheme of a present header is not looked at.
RejectAbsentOnly(auth) == auth = None \/ auth = <<>>

\* `not auth or not auth.lower().startswith("bearer ")`
Rejected(auth) ==
    auth = None \/ auth = <<>> \/ ~StartsWith(Lower(auth), BearerPrefix)

dispatch(request) ==
    IF StartsWith(request.path, WellKnown)
    THEN call_next(request, None)
    ELSE IF Rejected(request.auth)
         THEN Unauthorized
         ELSE call_next(request, SplitToken(request.auth))

\* ------------------------------------------------------------------------
\* src/__main__.py: the process from its start to the listener

\* src/github_agent_executor.py imports src.github_agent (it wraps GitHubAgent).
ExecutorImportsAgent == TRUE

\* `from src.github_agent_executor import ...` runs github_agent's module
\* body: memory = MemorySaver(); environment = parse_env().
ImportModules ==
    /\ boot = "start"
    /\ ExecutorImportsAgent
    /\ environ' = load_dotenv(environ, dotenv)
    /\ LET e == parse_env(environ')
       IN IF e.raised # ""
          THEN boot' = "crashed" /\ environment' = environment
          ELSE boot' = "imported" /\ environment' = e
    /\ UNCHANGED <<environ0, dotenv, log, urlVars, prVars, agentVars>>

\* main(): agent card, DefaultRequestHandler(GitHubAgentExecutor()), the
\* Starlette app and add_middleware(BearerAuthMiddleware).
MainBuild ==
    /\ boot = "imported"
    /\ boot' = "built"
    /\ UNCHANGED <<environ, environ0, dotenv, environment, log, urlVars, prVars, agentVars>>

\* uvicorn.run(server, host='0.0.0.0', port=9999)
UvicornRun ==
    /\ boot = "built"
    /\ boot' = "listening"
    /\ UNCHANGED <<environ, environ0, dotenv, environment, log, urlVars, prVars, agentVars>>

\* One inbound request, answered by the middleware stack.
Request ==
    /\ boot = "listening"
    /\ Len(log) < MaxRequests
    /\ \E p \in Paths, a \in AuthValues :
         LET request == [path |-> p, auth |-> a]
         IN log' = Append(log, [request |-> request, response |-> dispatch(request)])
    /\ UNCHANGED <<boot, environ, environ0, dotenv, environment, urlVars, prVars, agentVars>>

EnvValues == {None, <<>>, Tok}

\* github_agent.environment before the module body has run.
NoEnvironment == [raised |-> "unbound", github_token |-> None]

InitServer ==
    /\ boot = "start"
    /\ environ \in EnvValues
    /\ environ0 = environ
    /\ dotenv \in EnvValues
    /\ environment = NoEnvironment
    /\ log = <<>>

IdleServer ==
    /\ boot = "start" /\ environ = None /\ environ0 = None /\ dotenv = None
    /\ environment = NoEnvironment /\ log = <<>>

\* ------------------------------------------------------------------------
\* src/util/github_util.py

MaxUrlLen == 5

UrlChars == {"/", "a", "?"}

\* All sequences over S of length at most n.
RECURSIVE SeqsUpTo(_, _)
SeqsUpTo(S, n) ==
    IF n = 0 THEN {<<>>}
    ELSE LET shorter == SeqsUpTo(S, n - 1)
         IN shorter \cup {Append(t, c) : t \in {x \in shorter : Len(x) = n - 1}, c \in S}

\* "h://h", a scheme and a host, or nothing, followed by up to MaxUrlLen characters.
Urls ==
    {pre \o body : pre \in {<<>>, <<"h", ":", "/", "/", "h">>},
                   body \in SeqsUpTo(UrlChars, MaxUrlLen)}

Drop(s, n) == SubSeq(s, n + 1, Len(s))

\* urllib.parse.urlsplit: a leading "<letters>:" is the scheme.
StripScheme(u) ==
    LET i == Find(u, ":")
    IN IF i > 1 /\ \A j \in 1..(i - 1) : u[j] \in {"h", "a"} THEN Drop(u, i) ELSE u

\* urllib.parse.urlsplit: after "//" the network location runs to the next "/" or "?".
StripNetloc(u) ==
    IF Len(u) >= 2 /\ u[1] = "/" /\ u[2] = "/"
    THEN LET rest == Drop(u, 2)
             s == Find(rest, "/")
             q == Find(rest, "?")
             cut == IF s = 0 THEN (IF q = 0 THEN Len(rest) + 1 ELSE q)
                    ELSE IF q = 0 THEN s ELSE (IF s < q THEN s ELSE q)
         IN Drop(rest, cut - 1)
    ELSE u

\* urllib.parse.urlsplit: the query starts at the first "?".
StripQuery(u) == LET q == Find(u, "?") IN IF q = 0 THEN u ELSE SubSeq(u, 1, q - 1)

\* urlparse(url).path
UrlPath(u) == StripQuery(StripNetloc(StripScheme(u)))

\* str.strip("/")
RECURSIVE LStrip(_)
LStrip(s) == IF s # <<>> /\ Head(s) = "/" THEN LStrip(Tail(s)) ELSE s
RECURSIVE RStrip(_)
RStrip(s) ==
    IF s # <<>> /\ s[Len(s)] = "/" THEN RStrip(SubSeq(s, 1, Len(s) - 1)) ELSE s
Strip(s) == RStrip(LStrip(s))

\* str.split("/"): always at least one part; empty parts are kept.
RECURSIVE Split(_)
Split(s) ==
    LET i == Find(s, "/")
    IN IF i = 0 THEN <<s>> ELSE <<SubSeq(s, 1, i - 1)>> \o Split(Drop(s, i))

parse_github_repo_url(u) ==
    LET parts == Split(Strip(UrlPath(u)))
    IN IF Len(parts) < 2
       THEN [status |-> "ValueError", owner |-> <<>>, name |-> <<>>]
       ELSE [status |-> "returned", owner |-> parts[1], name |-> parts[2]]

NotParsed == [status |-> "pending", owner |-> <<>>, name |-> <<>>]

ParseUrl ==
    /\ parsed = NotParsed
    /\ parsed' = parse_github_repo_url(url)
    /\ UNCHANGED <<url, serverVars, prVars, agentVars>>

InitUrl == url \in Urls /\ parsed = NotParsed
IdleUrl == url = <<>> /\ parsed = NotParsed

\* ------------------------------------------------------------------------
\* src/github_agent.py: the open_github_pr tool
\*
\* title and body are str | None; related_issue is int | None, written here
\* as a set: {} is None and {n} is the number n.

Titles == {None, <<"T">>}
Bodies == {None, <<"B">>}
Issues == {{}, {0}, {7}}

NoCall == [op |-> "none", title |-> None, body |-> None, issue |-> {}, ok |-> TRUE]

\* gh.get_repo(f"{repo_owner}/{repo_name}")
GetRepoCall(ok) == [NoCall EXCEPT !.op = "get_repo", !.ok = ok]

\* retrieved_repo.get_issue(number=related_issue)
GetIssueCall(related_issue, ok) ==
    [NoCall EXCEPT !.op = "get_issue", !.issue = related_issue, !.ok = ok]

\* Faulty variant: `if related_issue`, which takes issue 0 for no issue.
IssueTruthy(related_issue) == related_issue # {} /\ related_issue # {0}

\* `related_issue is not None`
IssueSupplied(related_issue) == related_issue # {}

\* retrieved_repo.create_pull(...): with an issue only head, base and the
\* issue are passed; without one, title, body, head and base.
CreatePullCall(args, ok) ==
    IF IssueSupplied(args.related_issue)
    THEN [NoCall EXCEPT !.op = "create_pull", !.issue = args.related_issue, !.ok = ok]
    ELSE [NoCall EXCEPT !.op = "create_pull", !.title = args.title,
                        !.body = args.body, !.ok = ok]

PrPending == [status |-> "pending", error |-> ""]
PrRaise(e) == [status |-> "raised", error |-> e]

\* build_github_client(): no token, no client.
PrBuildClient ==
    /\ prpc = "start"
    /\ IF prenv = None \/ prenv = <<>>
       THEN prpc' = "raised" /\ prout' = PrRaise("RuntimeError")
       ELSE prpc' = "client" /\ prout' = prout
    /\ UNCHANGED <<prargs, prenv, calls, serverVars, urlVars, agentVars>>

PrGetRepo ==
    /\ prpc = "client"
    /\ \E ok \in BOOLEAN :
         /\ calls' = Append(calls, GetRepoCall(ok))
         /\ IF ok
            THEN prpc' = "repo" /\ prout' = prout
            ELSE prpc' = "raised" /\ prout' = PrRaise("GithubException")
    /\ UNCHANGED <<prargs, prenv, serverVars, urlVars, agentVars>>

\* The conditional expression of line 78: the lookup, or None without a call.
PrGetIssue ==
    /\ prpc = "repo"
    /\ IF IssueSupplied(prargs.related_issue)
       THEN \E ok \in BOOLEAN :
              /\ calls' = Append(calls, GetIssueCall(prargs.related_issue, ok))
              /\ IF ok
                 THEN prpc' = "issue" /\ prout' = prout
                 ELSE prpc' = "raised" /\ prout' = PrRaise("GithubException")
       ELSE prpc' = "issue" /\ calls' = calls /\ prout' = prout
    /\ UNCHANGED <<prargs, prenv, serverVars, urlVars, agentVars>>

\* create_pull and the returned dict.
PrCreatePull ==
    /\ prpc = "issue"
    /\ \E ok \in BOOLEAN :
         /\ calls' = Append(calls, CreatePullCall(prargs, ok))
         /\ IF ok
            THEN prpc' = "returned" /\ prout' = [status |-> "returned", error |-> ""]
            ELSE prpc' = "raised" /\ prout' = PrRaise("GithubException")
    /\ UNCHANGED <<prargs, prenv, serverVars, urlVars, agentVars>>

InitPr ==
    /\ prpc = "start"
    /\ prargs \in [title : Titles, body : Bodies, related_issue : Issues]
    /\ prenv \in EnvValues
    /\ calls = <<>>
    /\ prout = PrPending

IdlePr ==
    /\ prpc = "start"
    /\ prargs = [title |-> None, body |-> None, related_issue |-> {}]
    /\ prenv = None
    /\ calls = <<>>
    /\ prout = PrPending

\* ------------------------------------------------------------------------
\* src/github_agent.py: GitHubAgent
\*
\* The graph is create_agent(model, tools, checkpointer=memory,
\* response_format=AgentResponseFormat).  graph.stream(inputs, config,
\* stream_mode='values') hands over the thread's state once the input is
\* applied and once after every step of the graph; the state is kept in
\* memory under config's thread_id and outlives the turn.

MaxTurns     == 2   \* turns started in one run
MaxToolCalls == 2   \* tool calls the model asks for in one turn

Workers  == {1, 2}
Contexts == {"c1", "c2"}

\* The text of the model's structured answer in the n-th turn of the run: a
\* text of its own for every turn.
Message(n) == "answer " \o ToString(n)
Statuses == {"input_required", "completed", "error"}

HumanMessage  == [type |-> "human", tool_calls |-> 0]
AIMessage(k)  == [type |-> "ai", tool_calls |-> k]
ToolMessage   == [type |-> "tool", tool_calls |-> 0]

\* state.values.get('structured_response') of a thread that has none
NoResponse == [status |-> "none", message |-> ""]

NewThread == [messages |-> <<>>, structured_response |-> NoResponse]

\* Faulty variant: every turn runs on the same thread.
OneThreadForAll(context_id) == "c1"

\* config = {'configurable': {'thread_id': context_id}}
thread_id(context_id) == context_id

Invoking ==
    [is_task_complete |-> FALSE, require_user_input |-> FALSE,
     content |-> "Invoking GitHub API..."]
Processing ==
    [is_task_complete |-> FALSE, require_user_input |-> FALSE,
     content |-> "Processing GitHub API response..."]
Fallback ==
    [is_task_complete |-> FALSE, require_user_input |-> TRUE,
     content |-> "We are unable to process your request at the moment. Please try again."]

\* Faulty variant: the loop yields no progress event.
YieldsNothing(m) == <<>>

\* Faulty variant: one "Invoking" event for every tool call of the message.
YieldsPerCall(m) ==
    IF m.type = "ai" /\ m.tool_calls > 0 THEN [i \in 1..m.tool_calls |-> Invoking]
    ELSE IF m.type = "tool" THEN <<Processing>>
    ELSE <<>>

\* The body of stream()'s loop: what it yields for an item whose last message is m.
Yields(m) ==
    IF m.type = "ai" /\ m.tool_calls > 0 THEN <<Invoking>>
    ELSE IF m.type = "tool" THEN <<Processing>>
    ELSE <<>>

\* Faulty variant: a completed answer is reported like the other two.
AllNeedInput(r) ==
    IF r.status = "none" THEN Fallback
    ELSE [is_task_complete |-> FALSE, require_user_input |-> TRUE,
          content |-> r.message]

\* Faulty variant: an error ends the task.
ErrorIsTerminal(r) ==
    IF r.status = "input_required"
    THEN [is_task_complete |-> FALSE, require_user_input |-> TRUE, content |-> r.message]
    ELSE IF r.status \in {"error", "completed"}
    THEN [is_task_complete |-> TRUE, require_user_input |-> FALSE, content |-> r.message]
    ELSE Fallback

\* get_agent_response, given the thread's structured_response
AgentResponse(r) ==
    IF r.status = "input_required"
    THEN [is_task_complete |-> FALSE, require_user_input |-> TRUE, content |-> r.message]
    ELSE IF r.status = "error"
    THEN [is_task_complete |-> FALSE, require_user_input |-> TRUE, content |-> r.message]
    ELSE IF r.status = "completed"
    THEN [is_task_complete |-> TRUE, require_user_input |-> FALSE, content |-> r.message]
    ELSE Fallback

get_agent_response(config) == AgentResponse(memory[config].structured_response)

NoHist ==
    [no |-> 0, start |-> NewThread, own |-> <<>>, produced |-> NoResponse,
     observed |-> <<>>]

Streaming(w) == pc[w] = "streaming"

\* Number of tool calls in a sequence of messages.
RECURSIVE SumToolCalls(_)
SumToolCalls(msgs) ==
    IF msgs = <<>> THEN 0 ELSE Head(msgs).tool_calls + SumToolCalls(Tail(msgs))

\* One step of the graph on thread t for worker w: the messages it appends,
\* the structured response it leaves, and then the loop body on the item.
GraphStep(w, t, new, resp, produced, next) ==
    LET after == [messages |-> memory[t].messages \o new, structured_response |-> resp]
        last  == after.messages[Len(after.messages)]
    IN /\ memory' = [memory EXCEPT ![t] = after]
       /\ events' = [events EXCEPT ![w] = @ \o Yields(last)]
       /\ hist' = [hist EXCEPT ![w].own = @ \o new,
                               ![w].produced = produced,
                               ![w].observed = Append(@, last)]
       /\ node' = [node EXCEPT ![w] = next]
       /\ UNCHANGED <<pc, ctx, turns, serverVars, urlVars, prVars>>

\* stream(query, context_id) is called: nothing has run yet.
StartTurn(w, c) ==
    /\ pc[w] \in {"idle", "done"}
    /\ turns < MaxTurns
    /\ turns' = turns + 1
    /\ pc' = [pc EXCEPT ![w] = "streaming"]
    /\ ctx' = [ctx EXCEPT ![w] = c]
    /\ node' = [node EXCEPT ![w] = "input"]
    /\ events' = [events EXCEPT ![w] = <<>>]
    /\ hist' = [hist EXCEPT ![w] = [NoHist EXCEPT !.no = turns',
                                                  !.start = memory[thread_id(c)]]]
    /\ UNCHANGED <<memory, serverVars, urlVars, prVars>>

\* The input Command(update={"messages": [HumanMessage(query)]}) is applied.
GraphInput(w) ==
    /\ Streaming(w) /\ node[w] = "input"
    /\ LET t == thread_id(ctx[w])
       IN GraphStep(w, t, <<HumanMessage>>, memory[t].structured_response,
                    hist[w].produced, "model")

\* The model answers with tool calls.
ModelCallsTools(w) ==
    /\ Streaming(w) /\ node[w] = "model"
    /\ \E k \in 1..(MaxToolCalls - SumToolCalls(hist[w].own)) :
         LET t == thread_id(ctx[w])
         IN GraphStep(w, t, <<AIMessage(k)>>, memory[t].structured_response,
                      hist[w].produced, "tools")

\* The tools of the last model response run; each appends its ToolMessage.
ToolsRun(w) ==
    /\ Streaming(w) /\ node[w] = "tools"
    /\ LET t == thread_id(ctx[w])
           k == memory[t].messages[Len(memory[t].messages)].tool_calls
       IN GraphStep(w, t, [i \in 1..k |-> ToolMessage],
                    memory[t].structured_response, hist[w].produced, "model")

\* The model ends the turn with a structured answer.
ModelAnswers(w) ==
    /\ Streaming(w) /\ node[w] = "model"
    /\ \E st \in Statuses :
         LET r == [status |-> st, message |-> Message(hist[w].no)]
         IN GraphStep(w, thread_id(ctx[w]), <<AIMessage(0)>>, r, r, "end")

\* The model ends the turn with a plain message and no structured answer.
ModelEndsPlain(w) ==
    /\ Streaming(w) /\ node[w] = "model"
    /\ LET t == thread_id(ctx[w])
       IN GraphStep(w, t, <<AIMessage(0)>>, memory[t].structured_response,
                    hist[w].produced, "end")

\* graph.stream is exhausted: yield self.get_agent_response(config).
StreamEnds(w) ==
    /\ Streaming(w) /\ node[w] = "end"
    /\ events' = [events EXCEPT ![w] = Append(@, get_agent_response(thread_id(ctx[w])))]
    /\ pc' = [pc EXCEPT ![w] = "done"]
    /\ UNCHANGED <<memory, ctx, node, hist, turns, serverVars, urlVars, prVars>>

InitAgent ==
    /\ memory = [c \in Contexts |-> NewThread]
    /\ pc = [w \in Workers |-> "idle"]
    /\ ctx = [w \in Workers |-> "c1"]
    /\ node = [w \in Workers |-> "input"]
    /\ events = [w \in Workers |-> <<>>]
    /\ hist = [w \in Workers |-> NoHist]
    /\ turns = 0

Turn(w) ==
    \/ \E c \in Contexts : StartTurn(w, c)
    \/ GraphInput(w)
    \/ ModelCallsTools(w)
    \/ ToolsRun(w)
    \/ ModelAnswers(w)
    \/ ModelEndsPlain(w)
    \/ StreamEnds(w)

\* ------------------------------------------------------------------------
\* Specifications

\* The process: start-up, then requests through the bearer gate.
InitProcess == InitServer /\ IdleUrl /\ IdlePr /\ InitAgent
NextProcess ==
    \/ ImportModules
    \/ MainBuild
    \/ UvicornRun
    \/ Request
SpecServer == InitProcess /\ [][NextProcess]_vars

\* parse_github_repo_url on every URL of Urls.
InitParse == IdleServer /\ InitUrl /\ IdlePr /\ InitAgent
NextParse == ParseUrl
SpecUrl == InitParse /\ [][NextParse]_vars

\* One call of open_github_pr.
InitTool == IdleServer /\ IdleUrl /\ InitPr /\ InitAgent
NextTool ==
    \/ PrBuildClient
    \/ PrGetRepo
    \/ PrGetIssue
    \/ PrCreatePull
SpecPr == InitTool /\ [][NextTool]_vars

\* Turns of the agent, one after the other.
Init == IdleServer /\ IdleUrl /\ IdlePr /\ InitAgent
Next == \E w \in {1} : Turn(w)
Spec == Init /\ [][Next]_vars

\* Two calls of stream() on different context ids, one per worker,
\* interleaved at every step, on threads that are new or hold an earlier turn.
EarlierTurn ==
    [messages |-> <<HumanMessage, AIMessage(0)>>,
     structured_response |-> [status |-> "completed", message |-> Message(0)]]
InitConc ==
    /\ IdleServer /\ IdleUrl /\ IdlePr
    /\ memory \in [Contexts -> {NewThread, EarlierTurn}]
    /\ pc = [w \in Workers |-> "idle"]
    /\ ctx = [w \in Workers |-> "c1"]
    /\ node = [w \in Workers |-> "input"]
    /\ events = [w \in Workers |-> <<>>]
    /\ hist = [w \in Workers |-> NoHist]
    /\ turns = 0
OtherContext(w, c) == \A v \in Workers \ {w} : pc[v] # "idle" => ctx[v] # c
ConcurrentStart(w) ==
    /\ pc[w] = "idle"
    /\ \E c \in Contexts : OtherContext(w, c) /\ StartTurn(w, c)
NextConc ==
    \E w \in Workers :
        \/ ConcurrentStart(w)
        \/ GraphInput(w)
        \/ ModelCallsTools(w)
        \/ ToolsRun(w)
        \/ ModelAnswers(w)
        \/ ModelEndsPlain(w)
        \/ StreamEnds(w)
SpecConc == InitConc /\ [][NextConc]_vars

\* ------------------------------------------------------------------------
\* Properties

IsBearer(auth) == auth # None /\ StartsWith(Lower(auth), BearerPrefix)

\* C1: a request outside /.well-known whose Authorization header is absent
\* or does not start with "bearer " (in any case) is answered 401 with the
\* detail body, and call_next is not invoked for it.
C1_UnauthorizedRejected ==
    \A i \in 1..Len(log) :
        LET rq == log[i].request
            rs == log[i].response
        IN (~StartsWith(rq.path, WellKnown) /\ ~IsBearer(rq.auth))
           => /\ rs.status_code = 401
              /\ rs.body = "Missing or invalid Authorization header"
              /\ rs.called_next = FALSE

\* A request for "/" with a present header of another scheme was refused.
C1_Witness ==
    \E i \in 1..Len(log) :
        /\ log[i].request.path = <<"/">>
        /\ log[i].request.auth = <<"B", "a", "s", "i", "c", " ", "t">>
        /\ log[i].response.status_code = 401

Halted == boot \in {"start", "crashed"} /\ environment = NoEnvironment /\ log = <<>>

\* C7 as stated: with GITHUB_TOKEN unset or empty in the environment the
\* process was started with, the agent is never built, the listener never
\* binds and no request is served.
C7_MissingAtStartHalts == environ0 \in {None, <<>>} => Halted

\* C7, amended: with GITHUB_TOKEN empty in the process environment, or unset
\* there and unset or empty in the .env file, parse_env raises: the agent is
\* never built, the listener never binds and no request is served.
C7_MissingAfterDotenvHalts ==
    (environ0 = <<>> \/ (environ0 = None /\ dotenv \in {None, <<>>}))
        => /\ Halted
           /\ boot # "start" => boot = "crashed"

\* Start-up stopped on an empty GITHUB_TOKEN although .env holds one.
C7_Witness == boot = "crashed" /\ environ0 = <<>> /\ dotenv = Tok

\* Number of non-empty segments of a path.
RECURSIVE Segments(_)
Segments(path) ==
    LET p == LStrip(path)
        i == Find(p, "/")
    IN IF p = <<>> THEN 0 ELSE IF i = 0 THEN 1 ELSE 1 + Segments(Drop(p, i))

\* C8: parse_github_repo_url returns two non-empty segments of the URL's
\* path or raises ValueError, and raises whenever the path has fewer than
\* two segments.
C8_TwoNonEmptySegments ==
    parsed # NotParsed =>
        /\ parsed.status = "returned" => parsed.owner # <<>> /\ parsed.name # <<>>
        /\ Segments(UrlPath(url)) < 2 => parsed.status = "ValueError"

CallsOf(op) == {i \in 1..Len(calls) : calls[i].op = op}

\* C9: with related_issue the issue is fetched, then the pull request is
\* created from it without title and body; without related_issue the pull
\* request is created with the given title and body and no issue is
\* fetched.  No call is made twice, and a failed call ends the tool with
\* that failure.
C9_OpenPr ==
    /\ \A op \in {"get_repo", "get_issue", "create_pull"} : Cardinality(CallsOf(op)) <= 1
    /\ prargs.related_issue # {} =>
          \A i \in CallsOf("create_pull") :
              /\ calls[i].title = None /\ calls[i].body = None
              /\ calls[i].issue = prargs.related_issue
              /\ \E j \in 1..(i - 1) :
                    /\ calls[j].op = "get_issue"
                    /\ calls[j].issue = prargs.related_issue
                    /\ calls[j].ok
    /\ prargs.related_issue = {} =>
          /\ CallsOf("get_issue") = {}
          /\ \A i \in CallsOf("create_pull") :
                /\ calls[i].title = prargs.title /\ calls[i].body = prargs.body
                /\ calls[i].issue = {}
    /\ \A i \in 1..Len(calls) :
          ~calls[i].ok => i = Len(calls) /\ prpc = "raised" /\ prout.status = "raised"
    /\ prpc = "returned" =>
          /\ Cardinality(CallsOf("create_pull")) = 1
          /\ \A i \in 1..Len(calls) : calls[i].ok

\* A pull request was opened for issue 0 although a title was given.
C9_Witness ==
    /\ prpc = "returned"
    /\ prargs.related_issue = {0}
    /\ prargs.title # None

\* The progress events a sequence of streamed items calls for.
RECURSIVE Progress(_)
Progress(obs) ==
    IF obs = <<>> THEN <<>>
    ELSE (IF Head(obs).type = "ai" /\ Head(obs).tool_calls > 0 THEN <<Invoking>>
          ELSE IF Head(obs).type = "tool" THEN <<Processing>>
          ELSE <<>>) \o Progress(Tail(obs))

IsProgress(e) == ~e.is_task_complete /\ ~e.require_user_input

Done(w) == pc[w] = "done"
Last(q) == q[Len(q)]

Count(q, e) == Cardinality({i \in 1..Len(q) : q[i] = e})

\* C3 as stated: a finished turn has one "Invoking" and one "Processing"
\* event for every tool call, all before the final event.
C3_OnePairPerToolCall ==
    \A w \in Workers :
        Done(w) =>
            /\ Count(events[w], Invoking) = SumToolCalls(hist[w].own)
            /\ Count(events[w], Processing) = SumToolCalls(hist[w].own)
            /\ Last(events[w]) \notin {Invoking, Processing}

\* C3, amended: a finished turn has one "Invoking" event for every model
\* response that carries tool calls and one "Processing" event for every
\* tool step, whatever the number of tool calls, all before the final event.
C3_OnePairPerToolStep ==
    \A w \in Workers :
        Done(w) =>
            LET rounds == Cardinality({i \in 1..Len(hist[w].own) :
                              hist[w].own[i].type = "ai" /\ hist[w].own[i].tool_calls > 0})
                n == Len(events[w])
            IN /\ Count(events[w], Invoking) = rounds
               /\ Count(events[w], Processing) = rounds
               /\ n = 2 * rounds + 1
               /\ events[w][n] \notin {Invoking, Processing}

\* A turn whose model response carried two tool calls has ended.
C3_Witness ==
    Done(1) /\ \E i \in 1..Len(hist[1].own) : hist[1].own[i].tool_calls = 2

\* C4: a turn whose structured response is 'completed' yields exactly one
\* event with is_task_complete, the last one, without require_user_input
\* and with the model's message.
C4_CompletedIsTerminal ==
    \A w \in Workers :
        (Done(w) /\ hist[w].produced.status = "completed") =>
            LET n == Len(events[w])
            IN /\ events[w][n] = [is_task_complete |-> TRUE,
                                  require_user_input |-> FALSE,
                                  content |-> hist[w].produced.message]
               /\ \A i \in 1..(n - 1) : ~events[w][i].is_task_complete

\* A turn with a tool round ended 'completed'.
C4_Witness ==
    Done(1) /\ hist[1].produced.status = "completed" /\ Len(events[1]) > 1

\* C5: a turn whose structured response is 'input_required' or 'error' ends
\* with is_task_complete false, require_user_input true and the model's
\* message.
C5_NeedsInputOrError ==
    \A w \in Workers :
        (Done(w) /\ hist[w].produced.status \in {"input_required", "error"}) =>
            Last(events[w]) = [is_task_complete |-> FALSE,
                               require_user_input |-> TRUE,
                               content |-> hist[w].produced.message]

\* A turn ended 'error'.
C5_Witness == Done(1) /\ hist[1].produced.status = "error"

\* C6: a turn in which the model gave no structured answer ends with the
\* fallback event, on a new thread and on one with earlier turns.
C6_FallbackWithoutAnswer ==
    \A w \in Workers :
        (Done(w) /\ hist[w].produced.status = "none") => Last(events[w]) = Fallback

\* The thread a turn would leave had it run alone.
Alone(w) ==
    [messages |-> hist[w].start.messages \o hist[w].own,
     structured_response |->
        IF hist[w].produced.status # "none" THEN hist[w].produced
        ELSE hist[w].start.structured_response]

C10_AsIfAlone ==
    \A w \in Workers :
            /\ Streaming(w) => memory[ctx[w]] = Alone(w)
            /\ Done(w) => Last(events[w]) = AgentResponse(Alone(w).structured_response)
            /\ (Streaming(w) \/ Done(w)) =>
                  SubSeq(events[w], 1, Len(Progress(hist[w].observed)))
                      = Progress(hist[w].observed)

C10_Frame ==
    \A c \in Contexts :
        memory'[c] # memory[c] => \E w \in Workers : Streaming(w) /\ ctx[w] = c

\* C10: a turn finds and leaves its thread, and yields its events, as if it
\* ran alone, whatever turns on other context ids do in between; and a
\* thread changes only in steps of a turn on its own context id.
C10_ContextsIndependent == []C10_AsIfAlone /\ [][C10_Frame]_vars

\* Two turns on different context ids have both run their graph to its end
\* before either has yielded its final event.
C10_Witness ==
    /\ Streaming(1) /\ Streaming(2)
    /\ ctx[1] # ctx[2]
    /\ node[1] = "end" /\ node[2] = "end"
    /\ hist[1].produced.status = "completed"
    /\ hist[2].produced.status = "none"

====
